---- MODULE Spec2Model ----
(***************************************************************************)
(* Model of the route tree of src/route.go: router.addRoute,               *)
(* node.childOrCreate and router.findRoute.                                *)
(*                                                                         *)
(* A Go string is a sequence of one-character strings, so that indexing,   *)
(* slicing and strings.Split are computed as the code computes them.       *)
(* A *node is the sequence of segment texts leading to it from the root of *)
(* its method's tree (the root is <<>>); a tree is the function from the   *)
(* nodes allocated so far to their fields.  A panic that a caller recovers *)
(* from leaves every assignment made before it in place.                   *)
(***************************************************************************)
EXTENDS Naturals, Sequences, FiniteSets, TLC

VARIABLES trees, last, ncalls, registered

vars == <<trees, last, ncalls, registered>>

\* ------------------------------------------------------------------ bounds
\* Longest path the calls are given, in segments.
MaxSegs == 2
\* Number of calls made on one router.
MaxCalls == 3

\* ------------------------------------------------------------ Go values
\* The nil HandleFunc.  A func value can be compared with nil and with
\* nothing else, so the HandleFunc a call passes is a value of its own: the
\* k-th call's is k.
NilHandler == 0
\* The nil *node in a child slot: a slot holds the segment text of the node
\* it points to, and no segment is empty.
NilNode == <<>>
\* The nil *regexp.Regexp: a compiled expression is kept as its source text,
\* which is never empty.
NilRegexp == <<>>

nodeTypeStatic == 0
nodeTypeReg == 1
nodeTypeParam == 2
nodeTypeAny == 3

\* The methods routes are registered under: the keys of r.trees.
Methods == {"GET"}

\* ------------------------------------------------------------- strings
\* strings.Index(s, c) for a one-character c, 1-based; 0 when c is absent.
Index(s, c) ==
    IF \E i \in 1..Len(s) : s[i] = c
    THEN CHOOSE i \in 1..Len(s) : s[i] = c /\ \A j \in 1..(i - 1) : s[j] # c
    ELSE 0

\* strings.Split(s, sep) for a one-character sep.
RECURSIVE Split(_, _)
Split(s, sep) ==
    LET i == Index(s, sep)
    IN  IF i = 0 THEN <<s>>
        ELSE <<SubSeq(s, 1, i - 1)>> \o Split(SubSeq(s, i + 1, Len(s)), sep)

\* IsRegShape with ".*" for each ".+": the name and the expression may be
\* empty.
IsRegShapeLoose(path) ==
    /\ Len(path) >= 3
    /\ path[1] = ":"
    /\ path[Len(path)] = ")"
    /\ \E i \in 2..(Len(path) - 1) : path[i] = "("

\* regexp.MatchString("^:.+\\(.+\\)$", path): a ':', one or more characters,
\* a '(', one or more characters, and a final ')'.
IsRegShape(path) ==
    /\ Len(path) >= 5
    /\ path[1] = ":"
    /\ path[Len(path)] = ")"
    /\ \E i \in 3..(Len(path) - 2) : path[i] = "("

\* Parenthesis depth after the first k characters of expr, for regexp.Compile;
\* Len(expr) + 1 once a ')' has closed nothing ("unexpected )").
RECURSIVE Depth(_, _)
Depth(expr, k) ==
    IF k = 0 THEN 0
    ELSE LET d == Depth(expr, k - 1)
         IN  IF d = Len(expr) + 1 THEN d
             ELSE IF expr[k] = "(" THEN d + 1
             ELSE IF expr[k] = ")" THEN (IF d = 0 THEN Len(expr) + 1 ELSE d - 1)
             ELSE d

\* Whether regexp.Compile(expr) succeeds, for expressions over literals,
\* '(' ')' and '*': parentheses balance and every '*' has an operand.
CompileOk(expr) ==
    /\ Depth(expr, Len(expr)) = 0
    /\ \A k \in 1..Len(expr) :
         expr[k] = "*" => (k > 1 /\ expr[k - 1] \notin {"(", "*"})

\* regexp.Compile(expr) with its error dropped: the compiled expression, or
\* the nil *Regexp.
Compile(expr) == IF CompileOk(expr) THEN expr ELSE NilRegexp

\* ---------------------------------------------------------------- nodes
\* &node{path: path, typ: typ, paramName: paramName, regExpr: regExpr}: every
\* other field is its zero value.  children holds the keys of the children
\* map ({} is the nil map: the map is made just before its first insertion);
\* starChild, paramChild and regChild hold NilNode or the segment text of the
\* node they point to, which is the node's last step from its parent.
NewNode(typ, path, paramName, regExpr) ==
    [typ |-> typ, path |-> path, children |-> {}, handler |-> NilHandler,
     starChild |-> NilNode, paramChild |-> NilNode, paramName |-> paramName,
     regChild |-> NilNode, regExpr |-> regExpr]

\* The node a parent's slot or children map entry with text seg points to.
Child(n, seg) == Append(n, seg)

\* What childOrCreate hands back: the tree after it, the node it returns,
\* and the panic it raised ("none" when it returned).
Resolved(t, n, panic) == [tree |-> t, node |-> n, panic |-> panic]

\* The tree t with node n's fields set to rec and node c allocated as fresh.
Link(t, n, rec, c, fresh) == [t EXCEPT ![n] = rec] @@ (c :> fresh)

\* StarChildOrCreate without its look at regChild and paramChild.
StarChildOrCreateUnchecked(t, n, path) ==
    IF t[n].starChild = NilNode
    THEN Resolved(Link(t, n, [t[n] EXCEPT !.starChild = path],
                       Child(n, path),
                       NewNode(nodeTypeAny, <<"*">>, <<>>, NilRegexp)),
                  Child(n, path), "none")
    ELSE Resolved(t, Child(n, t[n].starChild), "none")

\* childOrCreate, the branch for path == "*".
StarChildOrCreate(t, n, path) ==
    IF t[n].starChild = NilNode
    THEN IF t[n].regChild # NilNode THEN Resolved(t, n, "starAfterReg")
         ELSE IF t[n].paramChild # NilNode THEN Resolved(t, n, "starAfterParam")
         ELSE Resolved(Link(t, n, [t[n] EXCEPT !.starChild = path],
                            Child(n, path),
                            NewNode(nodeTypeAny, <<"*">>, <<>>, NilRegexp)),
                       Child(n, path), "none")
    ELSE Resolved(t, Child(n, t[n].starChild), "none")

\* RegChildOrCreate without its look at paramChild and starChild.
RegChildOrCreateUnchecked(t, n, path) ==
    IF t[n].regChild # NilNode
    THEN IF t[Child(n, t[n].regChild)].path # path
         THEN Resolved(t, n, "regConflict")
         ELSE Resolved(t, Child(n, t[n].regChild), "none")
    ELSE LET idx == Index(path, "(")
             paraName == SubSeq(path, 2, idx - 1)
             expr == SubSeq(path, idx + 1, Len(path) - 1)
         IN  Resolved(Link(t, n, [t[n] EXCEPT !.regChild = path],
                           Child(n, path),
                           NewNode(nodeTypeReg, path, paraName, Compile(expr))),
                      Child(n, path), "none")

\* childOrCreate, the branch for a path of the shape :name(expr).
RegChildOrCreate(t, n, path) ==
    IF t[n].paramChild # NilNode THEN Resolved(t, n, "regAfterParam")
    ELSE IF t[n].starChild # NilNode THEN Resolved(t, n, "regAfterStar")
    ELSE IF t[n].regChild # NilNode
    THEN IF t[Child(n, t[n].regChild)].path # path
         THEN Resolved(t, n, "regConflict")
         ELSE Resolved(t, Child(n, t[n].regChild), "none")
    ELSE LET idx == Index(path, "(")
             paraName == SubSeq(path, 2, idx - 1)
             expr == SubSeq(path, idx + 1, Len(path) - 1)
         IN  Resolved(Link(t, n, [t[n] EXCEPT !.regChild = path],
                           Child(n, path),
                           NewNode(nodeTypeReg, path, paraName, Compile(expr))),
                      Child(n, path), "none")

\* ParamChildOrCreate that hands back the param child it finds whatever its
\* path.
ParamChildOrCreateAnyName(t, n, path) ==
    IF t[n].regChild # NilNode THEN Resolved(t, n, "paramAfterReg")
    ELSE IF t[n].starChild # NilNode THEN Resolved(t, n, "paramAfterStar")
    ELSE IF t[n].paramChild # NilNode
    THEN Resolved(t, Child(n, t[n].paramChild), "none")
    ELSE Resolved(Link(t, n, [t[n] EXCEPT !.paramChild = path],
                       Child(n, path),
                       NewNode(nodeTypeParam, path, Tail(path), NilRegexp)),
                  Child(n, path), "none")

\* ParamChildOrCreate without its look at starChild.
ParamChildOrCreateOverStar(t, n, path) ==
    IF t[n].regChild # NilNode THEN Resolved(t, n, "paramAfterReg")
    ELSE IF t[n].paramChild # NilNode
    THEN IF t[Child(n, t[n].paramChild)].path # path
         THEN Resolved(t, n, "paramConflict")
         ELSE Resolved(t, Child(n, t[n].paramChild), "none")
    ELSE Resolved(Link(t, n, [t[n] EXCEPT !.paramChild = path],
                       Child(n, path),
                       NewNode(nodeTypeParam, path, Tail(path), NilRegexp)),
                  Child(n, path), "none")

\* childOrCreate, the branch for any other path that starts with ':'.
ParamChildOrCreate(t, n, path) ==
    IF t[n].regChild # NilNode THEN Resolved(t, n, "paramAfterReg")
    ELSE IF t[n].starChild # NilNode THEN Resolved(t, n, "paramAfterStar")
    ELSE IF t[n].paramChild # NilNode
    THEN IF t[Child(n, t[n].paramChild)].path # path
         THEN Resolved(t, n, "paramConflict")
         ELSE Resolved(t, Child(n, t[n].paramChild), "none")
    ELSE Resolved(Link(t, n, [t[n] EXCEPT !.paramChild = path],
                       Child(n, path),
                       NewNode(nodeTypeParam, path, Tail(path), NilRegexp)),
                  Child(n, path), "none")

\* StaticChildOrCreate that makes a new node also when the key is there.
StaticChildOrCreateAlways(t, n, path) ==
    Resolved((Child(n, path) :> NewNode(nodeTypeStatic, path, <<>>, NilRegexp))
                 @@ [t EXCEPT ![n] = [t[n] EXCEPT !.children = @ \cup {path}]],
             Child(n, path), "none")

\* childOrCreate, the static branch.
StaticChildOrCreate(t, n, path) ==
    IF path \in t[n].children
    THEN Resolved(t, Child(n, path), "none")
    ELSE Resolved(Link(t, n, [t[n] EXCEPT !.children = @ \cup {path}],
                       Child(n, path),
                       NewNode(nodeTypeStatic, path, <<>>, NilRegexp)),
                  Child(n, path), "none")

\* n.childOrCreate(path) on the tree t, for a non-empty path.
childOrCreate(t, n, path) ==
    IF path = <<"*">> THEN StarChildOrCreate(t, n, path)
    ELSE IF path[1] = ":"
    THEN IF IsRegShape(path) THEN RegChildOrCreate(t, n, path)
         ELSE ParamChildOrCreate(t, n, path)
    ELSE StaticChildOrCreate(t, n, path)

\* --------------------------------------------------------------- router
\* The root of a method's tree.
Root == <<>>

\* The loop of addRoute over seqs from its i-th segment on, standing at node
\* n of tree t: the tree after it, the node reached, and the panic raised.
RECURSIVE Descend(_, _, _, _)
Descend(t, n, seqs, i) ==
    IF i > Len(seqs) THEN Resolved(t, n, "none")
    ELSE IF seqs[i] = <<>> THEN Resolved(t, n, "emptySegment")
    ELSE LET c == childOrCreate(t, n, seqs[i])
         IN  IF c.panic # "none" THEN c
             ELSE Descend(c.tree, c.node, seqs, i + 1)

\* What addRoute leaves: r.trees after it and the panic it raised.
Outcome(r, panic) == [trees |-> r, panic |-> panic]

\* The "/" case of addRoute: the root of method's tree t takes the handler,
\* unless it has one.
AttachRoot(r, method, t, handler) ==
    IF t[Root].handler # NilHandler
    THEN Outcome([r EXCEPT ![method] = t], "rootConflict")
    ELSE Outcome([r EXCEPT ![method] = [t EXCEPT ![Root].handler = handler]],
                 "none")

\* AttachTerminal without its look at the handler already there.
AttachTerminalOverwrite(r, method, t, n, handler) ==
    Outcome([r EXCEPT ![method] = [t EXCEPT ![n].handler = handler]], "none")

\* The end of addRoute: the node n the loop ended at takes the handler,
\* unless it has one.
AttachTerminal(r, method, t, n, handler) ==
    IF t[n].handler # NilHandler
    THEN Outcome([r EXCEPT ![method] = t], "routeConflict")
    ELSE Outcome([r EXCEPT ![method] = [t EXCEPT ![n].handler = handler]],
                 "none")

\* WithRoot making r.trees anew for a method that has no root.
WithRootReset(r, method) ==
    IF method \in DOMAIN r THEN r
    ELSE (method :>
            (Root :> NewNode(nodeTypeStatic, <<"/">>, <<>>, NilRegexp)))

\* r.trees after the lookup of method's root, which makes the root of a
\* method that has none.
WithRoot(r, method) ==
    IF method \in DOMAIN r THEN r
    ELSE r @@ (method :>
                 (Root :> NewNode(nodeTypeStatic, <<"/">>, <<>>, NilRegexp)))

\* addRoute giving the handler to the node its loop stopped at when the
\* loop panicked.
addRouteEarlyHandler(r, method, path, handler) ==
    IF path = <<>> THEN Outcome(r, "emptyPath")
    ELSE IF path[1] # "/" THEN Outcome(r, "noLeadingSlash")
    ELSE IF path # <<"/">> /\ path[Len(path)] = "/"
    THEN Outcome(r, "trailingSlash")
    ELSE
      LET r1 == WithRoot(r, method)
      IN  IF path = <<"/">>
          THEN AttachRoot(r1, method, r1[method], handler)
          ELSE
            LET d == Descend(r1[method], Root,
                             Split(SubSeq(path, 2, Len(path)), "/"), 1)
            IN  IF d.panic # "none"
                THEN Outcome([r1 EXCEPT ![method] =
                                 [d.tree EXCEPT ![d.node].handler = handler]],
                             d.panic)
                ELSE AttachTerminal(r1, method, d.tree, d.node, handler)

\* r.addRoute(method, path, handler) on the trees r.
addRoute(r, method, path, handler) ==
    IF path = <<>> THEN Outcome(r, "emptyPath")
    ELSE IF path[1] # "/" THEN Outcome(r, "noLeadingSlash")
    ELSE IF path # <<"/">> /\ path[Len(path)] = "/"
    THEN Outcome(r, "trailingSlash")
    ELSE
      LET r1 == WithRoot(r, method)
      IN  IF path = <<"/">>
          THEN AttachRoot(r1, method, r1[method], handler)
          ELSE
            LET d == Descend(r1[method], Root,
                             Split(SubSeq(path, 2, Len(path)), "/"), 1)
            IN  IF d.panic # "none"
                THEN Outcome([r1 EXCEPT ![method] = d.tree], d.panic)
                ELSE AttachTerminal(r1, method, d.tree, d.node, handler)

\* The panics of addRoute that reject the path as malformed, and those that
\* reject it as clashing with what is registered.
ValidationPanics == {"emptyPath", "noLeadingSlash", "trailingSlash", "emptySegment"}
ConflictPanics ==
    {"rootConflict", "routeConflict", "starAfterReg", "starAfterParam",
     "regAfterParam", "regAfterStar", "regConflict",
     "paramAfterReg", "paramAfterStar", "paramConflict"}

\* --------------------------------------------------------------- inputs
\* The segment texts the calls are built from: a literal, the wildcard, two
\* parameters and two regular-expression parameters.
SegTexts ==
    { <<"a">>, <<"*">>, <<":", "x">>, <<":", "y">>,
      <<":", "x", "(", "a", ")">>, <<":", "y", "(", "a", ")">> }

\* "/" followed by the segments of ss joined with "/".
RECURSIVE Join(_)
Join(ss) == IF ss = <<>> THEN <<>> ELSE <<"/">> \o Head(ss) \o Join(Tail(ss))

WellFormedPaths ==
    {<<"/">>} \cup
    {Join(ss) : ss \in UNION {[1..k -> SegTexts] : k \in 1..MaxSegs}}

\* "", "a", "/a/", "//", "//a", "/a//a", "/*//a", "/:y//a".
MalformedPaths ==
    { <<>>, <<"a">>, <<"/", "a", "/">>, <<"/", "/">>, <<"/", "/", "a">>,
      <<"/", "a", "/", "/", "a">>, <<"/", "*", "/", "/", "a">>,
      <<"/", ":", "y", "/", "/", "a">> }

Paths == WellFormedPaths \cup MalformedPaths

\* ------------------------------------------------------------ matchInfo
\* The nil map[string]string; a map is a function from its keys.
NilMap == <<>>

\* addValue putting a map of the one entry in place of the map there is.
addValueFresh(m, key, value) ==
    [m EXCEPT !.pathParams = (key :> value)]

\* m.addValue(key, value) on a matchInfo m: a nil pathParams becomes the map
\* of the one entry, then the entry is written.
addValue(m, key, value) ==
    LET made == IF m.pathParams = NilMap THEN (key :> value) ELSE m.pathParams
    IN  [m EXCEPT !.pathParams = (key :> value) @@ made]

\* ----------------------------------------------------------- the machine
\* What is kept of the last call: the call, the panic it raised ("none" when
\* it returned) and, of a findRoute that returned, the bool and the
\* matchInfo's n and pathParams.
Call(op, m, p, h, panic) ==
    [op |-> op, method |-> m, path |-> p, handler |-> h, panic |-> panic,
     found |-> FALSE, n |-> Root, pathParams |-> <<>>]

\* newRouter(): no tree, no call made.
Init ==
    /\ trees = <<>>
    /\ last = Call("none", "", <<>>, NilHandler, "none")
    /\ ncalls = 0
    /\ registered = {}

\* One call of r.addRoute(m, p, h), returning or recovered from its panic,
\* with a handler of its own.  registered keeps the calls that returned.
AddRoute(m, p) ==
    /\ ncalls < MaxCalls
    /\ LET h == ncalls + 1
           res == addRoute(trees, m, p, h)
       IN  /\ trees' = res.trees
           /\ last' = Call("addRoute", m, p, h, res.panic)
           /\ registered' = IF res.panic = "none"
                            THEN registered \cup {<<m, p, h>>}
                            ELSE registered
    /\ ncalls' = ncalls + 1

\* FindRoute getting the method's root the way addRoute does, which makes
\* the root of a method that has none.
FindRouteMakingRoot(m, p) ==
    /\ ncalls < MaxCalls
    /\ last' = Call("findRoute", m, p, NilHandler, "implementMe")
    /\ ncalls' = ncalls + 1
    /\ trees' = WithRoot(trees, m)
    /\ UNCHANGED registered

\* One call of r.findRoute(m, p): it panics before it reads anything.
FindRoute(m, p) ==
    /\ ncalls < MaxCalls
    /\ last' = Call("findRoute", m, p, NilHandler, "implementMe")
    /\ ncalls' = ncalls + 1
    /\ UNCHANGED <<trees, registered>>

\* Calls of addRoute and findRoute in any order.
Next ==
    \/ \E m \in Methods, p \in Paths : AddRoute(m, p)
    \/ \E m \in Methods, p \in Paths : FindRoute(m, p)

Spec == Init /\ [][Next]_vars

\* The registration phase: calls of addRoute alone.
Register == \E m \in Methods, p \in Paths : AddRoute(m, p)

Registration == Init /\ [][Register]_vars

\* Two methods and the paths of at most one segment, with three of two
\* segments and the malformed ones: calls of addRoute and findRoute on them
\* in any order.
MethodPair == {"GET", "POST"}

ShortPaths ==
    {<<"/">>} \cup {Join(<<seg>>) : seg \in SegTexts} \cup MalformedPaths
    \cup {Join(<<(<<"a">>), seg>>) : seg \in {<<"a">>, <<"*">>, <<":", "x">>}}

RegisterAny == \E m \in MethodPair, p \in ShortPaths : AddRoute(m, p)

LookupAny == \E m \in MethodPair, p \in ShortPaths : FindRoute(m, p)

PerMethod == Init /\ [][RegisterAny \/ LookupAny]_vars

\* Segment texts at the borders of the kinds: "a", "*", "*a", "(a)", ":",
\* ":x", ":x(a)", ":x(*)", ":x()", ":(a)", ":((a)".
ShapeTexts ==
    { <<"a">>, <<"*">>, <<"*", "a">>, <<"(", "a", ")">>, <<":">>, <<":", "x">>,
      <<":", "x", "(", "a", ")">>, <<":", "x", "(", "*", ")">>,
      <<":", "x", "(", ")">>, <<":", "(", "a", ")">>,
      <<":", "(", "(", "a", ")">> }

\* Each of them as a path of its own and as the second segment below "a".
ShapePaths ==
    {Join(<<seg>>) : seg \in ShapeTexts}
    \cup {Join(<<(<<"a">>), seg>>) : seg \in ShapeTexts}

\* Calls of addRoute on these paths.
RegisterShape == \E m \in Methods, p \in ShapePaths : AddRoute(m, p)

Shapes == Init /\ [][RegisterShape]_vars

\* The keys and values addValue is called with: parameter names and
\* request segments.
ParamNames == {<<"x">>, <<"y">>, <<"i", "d">>}

ParamValues == {<<"a">>, <<"b">>, <<"4", "2">>}

\* One call of addValue(key, value) on the matchInfo kept in last, which
\* starts with the nil pathParams.
AddValue(key, value) ==
    /\ ncalls < MaxCalls
    /\ last' = [addValue(last, key, value) EXCEPT !.op = "addValue"]
    /\ ncalls' = ncalls + 1
    /\ UNCHANGED <<trees, registered>>

SetValue == \E key \in ParamNames, value \in ParamValues : AddValue(key, value)

Values == Init /\ [][SetValue]_vars

\* ================================================================ claims
\* The panics of childOrCreate that refuse a second kind of non-static child.
MixPanics ==
    {"starAfterReg", "starAfterParam", "regAfterParam", "regAfterStar",
     "paramAfterReg", "paramAfterStar"}

\* The non-static child slots of a node that are not nil.
FilledSlots(node) ==
    {k \in {"paramChild", "regChild", "starChild"} : node[k] # NilNode}

\* C1: after any sequence of addRoute calls, returning or panicking, every
\* node of every method's tree has at most one of paramChild, regChild and
\* starChild set.
ExclusivityI1 ==
    \A m \in DOMAIN trees : \A n \in DOMAIN trees[m] :
        Cardinality(FilledSlots(trees[m][n])) <= 1

\* A third call was refused for mixing kinds at a node that has a non-static
\* child beside static children.
ExclusivityWitness ==
    /\ ncalls = MaxCalls
    /\ last.op = "addRoute"
    /\ last.panic \in MixPanics
    /\ \E m \in DOMAIN trees : \E n \in DOMAIN trees[m] :
          /\ FilledSlots(trees[m][n]) # {}
          /\ trees[m][n].children # {}

\* The node a path ends at: the root for "/", else the node its segments
\* lead to.
Terminal(p) == IF p = <<"/">> THEN Root ELSE Split(Tail(p), "/")

\* C2: once addRoute(m, p, h1) has returned, every later addRoute(m, p, h2)
\* panics with the route conflict, whatever was called in between, and the
\* node p ends at keeps h1 as its handler.
DuplicateRegistration ==
    [][ /\ \A reg \in registered' :
             /\ reg[1] \in DOMAIN trees'
             /\ Terminal(reg[2]) \in DOMAIN trees'[reg[1]]
             /\ trees'[reg[1]][Terminal(reg[2])].handler = reg[3]
        /\ \A reg \in registered :
             ( /\ last'.op = "addRoute"
               /\ last'.method = reg[1]
               /\ last'.path = reg[2] )
             => last'.panic \in {"rootConflict", "routeConflict"}
      ]_vars

\* A path registered with one handler was refused with another, after a
\* second path had been registered in between.
DuplicateWitness ==
    /\ ncalls = MaxCalls
    /\ Cardinality(registered) = 2
    /\ last.op = "addRoute"
    /\ last.panic \in {"rootConflict", "routeConflict"}
    /\ \E reg \in registered :
          /\ reg[1] = last.method
          /\ reg[2] = last.path
          /\ reg[3] # last.handler
          /\ trees[reg[1]][Terminal(reg[2])].handler = reg[3]

\* A path addRoute must reject as malformed: empty, not starting with '/',
\* ending with '/' without being "/", or holding two '/' in a row.
Malformed(p) ==
    \/ p = <<>>
    \/ p[1] # "/"
    \/ p # <<"/">> /\ p[Len(p)] = "/"
    \/ \E i \in 1..(Len(p) - 1) : p[i] = "/" /\ p[i + 1] = "/"

\* C3: addRoute panics with a validation error whenever its path is empty,
\* does not start with '/', ends with '/' without being "/", or holds an
\* empty segment, and never does so for a path with none of these defects.
PathValidation ==
    last.op = "addRoute" =>
        (last.panic \in ValidationPanics <=> Malformed(last.path))

\* The half of C3 that holds: a validation error is raised only for a
\* malformed path, and a malformed path never registers.
PathValidationSound ==
    last.op = "addRoute" =>
        /\ last.panic \in ValidationPanics => Malformed(last.path)
        /\ Malformed(last.path) => last.panic # "none"

\* The kind a segment is registered as.
SegKind(seg) ==
    IF seg = <<"*">> THEN "star"
    ELSE IF seg[1] = ":" THEN (IF IsRegShape(seg) THEN "reg" ELSE "param")
    ELSE "static"

\* The slot that holds a child of a non-static kind.
SlotOf(kind) ==
    CASE kind = "star" -> "starChild"
      [] kind = "reg" -> "regChild"
      [] kind = "param" -> "paramChild"

\* A path that gets past the checks addRoute makes before it looks at the
\* tree, and has segments.
EntersTree(p) ==
    /\ p # <<>>
    /\ p[1] = "/"
    /\ p[Len(p)] # "/"

\* The step is an addRoute call on a method that has a tree, with a path that
\* enters it.
AddRouteInto ==
    /\ ncalls' = ncalls + 1
    /\ last'.op = "addRoute"
    /\ last'.method \in DOMAIN trees
    /\ EntersTree(last'.path)

\* C4: at a node that has a child of one of the kinds wildcard, regex and
\* param, an addRoute whose path puts a segment of another of these kinds
\* at that node panics with the conflict of mixing the two, for every pair
\* of kinds and for both orders of registration.
MixedKindConflict ==
    [][ AddRouteInto =>
          LET t == trees[last'.method]
              segs == Split(Tail(last'.path), "/")
          IN  \A i \in 1..Len(segs) :
                LET n == SubSeq(segs, 1, i - 1)
                IN  ( /\ n \in DOMAIN t
                      /\ segs[i] # <<>>
                      /\ SegKind(segs[i]) # "static"
                      /\ FilledSlots(t[n]) \ {SlotOf(SegKind(segs[i]))} # {} )
                    => last'.panic \in MixPanics
      ]_vars

\* A regex segment was refused below a static node that has a wildcard
\* child.
MixedKindWitness ==
    /\ last.op = "addRoute"
    /\ last.panic = "regAfterStar"
    /\ EntersTree(last.path)
    /\ LET segs == Split(Tail(last.path), "/")
       IN  /\ Len(segs) = 2
           /\ SegKind(segs[1]) = "static"
           /\ SegKind(segs[2]) = "reg"
           /\ trees[last.method][<<segs[1]>>].starChild # NilNode

\* C5: at a node that has a param child (a regex child) of text s, an
\* addRoute whose path puts a param segment (a regex segment) of another
\* text at that node panics with the conflict of that kind, and the child
\* keeps its path and its paramName.
SameKindConflict ==
    [][ AddRouteInto =>
          LET t == trees[last'.method]
              segs == Split(Tail(last'.path), "/")
          IN  \A i \in 1..Len(segs) :
                LET n == SubSeq(segs, 1, i - 1)
                IN  \A kind \in {"param", "reg"} :
                      ( /\ n \in DOMAIN t
                        /\ segs[i] # <<>>
                        /\ SegKind(segs[i]) = kind
                        /\ t[n][SlotOf(kind)] # NilNode
                        /\ t[Child(n, t[n][SlotOf(kind)])].path # segs[i] )
                      => LET c == Child(n, t[n][SlotOf(kind)])
                             tt == trees'[last'.method]
                         IN  /\ last'.panic = IF kind = "param"
                                              THEN "paramConflict"
                                              ELSE "regConflict"
                             /\ tt[n][SlotOf(kind)] = t[n][SlotOf(kind)]
                             /\ tt[c].path = t[c].path
                             /\ tt[c].paramName = t[c].paramName
      ]_vars

\* A second param name was refused below a static node.
SameKindWitness ==
    /\ last.op = "addRoute"
    /\ last.panic = "paramConflict"
    /\ EntersTree(last.path)
    /\ LET segs == Split(Tail(last.path), "/")
       IN  /\ Len(segs) = 2
           /\ SegKind(segs[1]) = "static"
           /\ trees[last.method][<<segs[1]>>].paramChild
                 \notin {NilNode, segs[2]}

\* Whether node n of tree t has a child of text seg, in the children map or
\* in the slot of seg's kind.
HasChild(t, n, seg) ==
    IF SegKind(seg) = "static" THEN seg \in t[n].children
    ELSE /\ t[n][SlotOf(SegKind(seg))] # NilNode
         /\ t[Child(n, t[n][SlotOf(SegKind(seg))])].path = seg

\* C6: childOrCreate on a segment whose text is that of a child the node
\* has returns that child, makes no node and changes no field; so a route
\* that shares a prefix with the routes before it registers, and leaves the
\* nodes of the shared prefix as they were, down to the last one, which
\* gains the new child or the handler.
IdempotentChildReuse ==
    /\ [](\A m \in DOMAIN trees : \A n \in DOMAIN trees[m] :
             \A seg \in SegTexts :
                 HasChild(trees[m], n, seg) =>
                     childOrCreate(trees[m], n, seg)
                         = Resolved(trees[m], Child(n, seg), "none"))
    /\ [][ AddRouteInto =>
             LET t == trees[last'.method]
                 tt == trees'[last'.method]
                 segs == Split(Tail(last'.path), "/")
             IN  \A i \in 1..Len(segs) :
                   SubSeq(segs, 1, i) \in DOMAIN t =>
                     /\ tt[SubSeq(segs, 1, i - 1)] = t[SubSeq(segs, 1, i - 1)]
                     /\ i = Len(segs) =>
                           /\ DOMAIN tt = DOMAIN t
                           /\ last'.panic \in {"none", "routeConflict"}
                     /\ ( /\ i < Len(segs)
                          /\ \A j \in 1..Len(segs) : segs[j] # <<>>
                          /\ ~HasChild(t, SubSeq(segs, 1, i), segs[i + 1])
                          /\ \/ SegKind(segs[i + 1]) = "static"
                             \/ FilledSlots(t[SubSeq(segs, 1, i)]) = {} )
                       => /\ last'.panic = "none"
                          /\ tt[segs].handler = last'.handler
         ]_vars

\* Two routes that share a param node and end below it at different
\* children are both registered.
ChildReuseWitness ==
    \E r1 \in registered, r2 \in registered :
        /\ r1[1] = r2[1]
        /\ Len(Terminal(r1[2])) = 2
        /\ Len(Terminal(r2[2])) = 2
        /\ Terminal(r1[2])[1] = Terminal(r2[2])[1]
        /\ SegKind(Terminal(r1[2])[1]) = "param"
        /\ Terminal(r1[2])[2] # Terminal(r2[2])[2]
        /\ trees[r1[1]][Terminal(r1[2])].handler = r1[3]
        /\ trees[r2[1]][Terminal(r2[2])].handler = r2[3]

\* ------------------------------------------------- the lookup as designed
\* Whether a compiled expression matches the whole of a request segment;
\* the expressions of SegTexts are literals.
MatchesWhole(regExpr, seg) == regExpr # NilRegexp /\ regExpr = seg

\* The child the lookup descends into from node n of tree t on request
\* segment seg: the static child of that key, else the regex child if its
\* expression matches, else the param child, else the wildcard child;
\* NilNode when there is none.
Chosen(t, n, seg) ==
    IF seg \in t[n].children THEN seg
    ELSE IF /\ t[n].regChild # NilNode
            /\ MatchesWhole(t[Child(n, t[n].regChild)].regExpr, seg)
    THEN t[n].regChild
    ELSE IF t[n].paramChild # NilNode THEN t[n].paramChild
    ELSE t[n].starChild

\* The walk of the request segments segs from their i-th on, standing at
\* node n: whether every segment was consumed, and the node reached.
RECURSIVE Walk(_, _, _, _)
Walk(t, n, segs, i) ==
    IF i > Len(segs) THEN [ok |-> TRUE, n |-> n]
    ELSE IF Chosen(t, n, segs[i]) = NilNode THEN [ok |-> FALSE, n |-> n]
    ELSE Walk(t, Child(n, Chosen(t, n, segs[i])), segs, i + 1)

\* The segments of a request path.
Segments(p) == IF p = <<"/">> THEN <<>> ELSE Split(Tail(p), "/")

\* Whether the walk of path p in method m's tree ends at a node with a
\* handler.
WalkFinds(m, p) ==
    /\ m \in DOMAIN trees
    /\ Walk(trees[m], Root, Segments(p), 1).ok
    /\ trees[m][Walk(trees[m], Root, Segments(p), 1).n].handler # NilHandler

\* The last call is a findRoute on a path of the registered shape.
Lookup == last.op = "findRoute" /\ ~Malformed(last.path)

\* C7: once addRoute(m, p, h) has returned, findRoute(m, p), with p as the
\* request path, returns true and a matchInfo whose node has handler h.
RegisterThenFind ==
    \A reg \in registered :
        (last.op = "findRoute" /\ last.method = reg[1] /\ last.path = reg[2])
        => /\ last.panic = "none"
           /\ last.found
           /\ trees[reg[1]][last.n].handler = reg[3]

\* C8: findRoute returns true if and only if the walk from the method's
\* root consumes every segment of the path and ends at a node with a
\* handler; the lookup of a proper prefix of the registered routes returns
\* false.
TerminalHandlerRequirement ==
    Lookup =>
        /\ last.panic = "none"
        /\ last.found <=> WalkFinds(last.method, last.path)

\* Whether some node of tree t with a handler is reached from the root by
\* children that each accept its segment of segs, whatever their priority.
SomeBranchFinds(t, segs) ==
    \E n \in DOMAIN t :
        /\ Len(n) = Len(segs)
        /\ t[n].handler # NilHandler
        /\ \A i \in 1..Len(n) :
              \/ t[SubSeq(n, 1, i)].typ = nodeTypeStatic /\ n[i] = segs[i]
              \/ /\ t[SubSeq(n, 1, i)].typ = nodeTypeReg
                 /\ MatchesWhole(t[SubSeq(n, 1, i)].regExpr, segs[i])
              \/ t[SubSeq(n, 1, i)].typ \in {nodeTypeParam, nodeTypeAny}

\* C9: findRoute descends into one child at each node, the first that
\* applies of static, regex, param and wildcard, and returns false when the
\* rest of the path fails below it, also when a sibling of lower priority
\* leads to a handler.
FixedPriorityNoBacktracking ==
    ( /\ Lookup
      /\ last.method \in DOMAIN trees
      /\ ~WalkFinds(last.method, last.path)
      /\ SomeBranchFinds(trees[last.method], Segments(last.path)) )
    => /\ last.panic = "none"
       /\ ~last.found

\* The pathParams of the lookup that ends at node n on request segments
\* segs: each paramName of a param or regex node on the way to n, with the
\* segment consumed at the deepest node of that name.
CapturedParams(t, n, segs) ==
    LET capturing == {i \in 1..Len(n) :
                        t[SubSeq(n, 1, i)].typ \in {nodeTypeParam, nodeTypeReg}}
        deepest(name) ==
            CHOOSE i \in capturing :
                /\ t[SubSeq(n, 1, i)].paramName = name
                /\ \A j \in capturing :
                      t[SubSeq(n, 1, j)].paramName = name => j <= i
    IN  [name \in {t[SubSeq(n, 1, i)].paramName : i \in capturing}
            |-> segs[deepest(name)]]

\* C10: the pathParams of a findRoute that returns true map each parameter
\* name of the matched route to the segment consumed at the deepest param
\* or regex node of that name, and hold nothing else; wildcard segments add
\* no entry.
ParameterCapture ==
    (Lookup /\ WalkFinds(last.method, last.path))
    => /\ last.panic = "none"
       /\ last.found
       /\ last.pathParams =
              CapturedParams(trees[last.method],
                             Walk(trees[last.method], Root,
                                  Segments(last.path), 1).n,
                             Segments(last.path))

\* C11: at a node the walk reaches whose only child is a regex child of
\* parameter name n and expression e, findRoute returns; it returns false
\* when the request segment at that node does not match e as a whole, and
\* when the segment matches, is the last of the path and the regex child has
\* a handler, it returns true with pathParams[n] the segment.
RegexGatedMatching ==
    (Lookup /\ last.method \in DOMAIN trees) =>
        LET t == trees[last.method]
            segs == Segments(last.path)
        IN  \A i \in 1..Len(segs) :
              LET w == Walk(t, Root, SubSeq(segs, 1, i - 1), 1)
              IN  ( /\ w.ok
                    /\ t[w.n].children = {}
                    /\ FilledSlots(t[w.n]) = {"regChild"} )
                  => LET c == Child(w.n, t[w.n].regChild)
                     IN  /\ last.panic = "none"
                         /\ ~MatchesWhole(t[c].regExpr, segs[i])
                               => ~last.found
                         /\ ( /\ MatchesWhole(t[c].regExpr, segs[i])
                              /\ i = Len(segs)
                              /\ t[c].handler # NilHandler )
                            => /\ last.found
                               /\ last.n = c
                               /\ t[c].paramName \in DOMAIN last.pathParams
                               /\ last.pathParams[t[c].paramName] = segs[i]

\* The trees r without those of the methods other than m.
Only(r, m) == [k \in DOMAIN r \cap {m} |-> r[k]]

\* C12: addRoute(m, p, h), returning or panicking, leaves every other
\* method with the tree it had, or with none if it had none; and what the
\* call raises and does to m's tree is what it would on a router that holds
\* m's tree alone, so that a path registered under another method never
\* makes it conflict.  findRoute changes no tree.
PerMethodIndependence ==
    [][ /\ ( ncalls' = ncalls + 1 /\ last'.op = "addRoute" ) =>
              LET m == last'.method
                  alone == addRoute(Only(trees, m), m, last'.path,
                                    last'.handler)
              IN  /\ \A k \in MethodPair \ {m} :
                        /\ k \in DOMAIN trees' <=> k \in DOMAIN trees
                        /\ k \in DOMAIN trees => trees'[k] = trees[k]
                  /\ last'.panic = alone.panic
                  /\ Only(trees', m) = alone.trees
        /\ last'.op = "findRoute" => trees' = trees
      ]_vars

\* A path registered under both methods, each node with its own handler,
\* and a third call that panicked under one of them.
PerMethodWitness ==
    /\ ncalls = MaxCalls
    /\ last.op = "addRoute"
    /\ last.panic # "none"
    /\ last.method \in DOMAIN trees
    /\ \E r1 \in registered, r2 \in registered :
          /\ r1[1] # r2[1]
          /\ r1[2] = r2[2]
          /\ trees[r1[1]][Terminal(r1[2])].handler = r1[3]
          /\ trees[r2[1]][Terminal(r2[2])].handler = r2[3]

\* The half of C13 that holds: addRoute(m, "/", h) on a root without
\* handler, or on a method without root, returns; the root has handler h
\* and no other field of it, no other node and no set of nodes has changed.
RootRegistration ==
    [][ ( /\ ncalls' = ncalls + 1
          /\ last'.op = "addRoute"
          /\ last'.path = <<"/">>
          /\ last'.method \in DOMAIN trees
                => trees[last'.method][Root].handler = NilHandler )
        => LET before == WithRoot(trees, last'.method)[last'.method]
               after == trees'[last'.method]
           IN  /\ last'.panic = "none"
               /\ after[Root].handler = last'.handler
               /\ after = [before EXCEPT ![Root].handler = last'.handler]
               /\ after[Root].children = before[Root].children
               /\ FilledSlots(after[Root]) = FilledSlots(before[Root])
      ]_vars

\* C13: addRoute(m, "/", h) on a root without handler sets the root's
\* handler and nothing else, and a findRoute(m, "/") after it returns true
\* with the root as its node and no path parameter.
RootSpecialCase ==
    /\ RootRegistration
    /\ []( ( /\ last.op = "findRoute"
             /\ last.path = <<"/">>
             /\ last.method \in DOMAIN trees
             /\ trees[last.method][Root].handler # NilHandler )
           => /\ last.panic = "none"
              /\ last.found
              /\ last.n = Root
              /\ DOMAIN last.pathParams = {} )

\* What a call left to its caller: the panic or the values returned.
Result(c) == <<c.panic, c.found, c.n, c.pathParams>>

HandlerPresence ==
    /\ \A reg \in registered :
          /\ reg[1] \in DOMAIN trees
          /\ Terminal(reg[2]) \in DOMAIN trees[reg[1]]
    /\ \A m \in DOMAIN trees : \A n \in DOMAIN trees[m] :
          trees[m][n].handler # NilHandler
              <=> \E reg \in registered : reg[1] = m /\ Terminal(reg[2]) = n

\* A route of two segments is registered with its handler at its end and
\* none at the node it passes through, and the last call panicked on an
\* empty segment after it made a node, which has no handler.
HandlerPresenceWitness ==
    /\ last.op = "addRoute"
    /\ last.panic = "emptySegment"
    /\ \E reg \in registered :
          /\ Len(Terminal(reg[2])) = 2
          /\ trees[reg[1]][Terminal(reg[2])].handler = reg[3]
          /\ trees[reg[1]][SubSeq(Terminal(reg[2]), 1, 1)].handler = NilHandler
    /\ \E n \in DOMAIN trees[last.method] :
          /\ Len(n) = 1
          /\ n[1] = Split(Tail(last.path), "/")[1]
          /\ trees[last.method][n].handler = NilHandler
          /\ \A reg \in registered : Terminal(reg[2])[1] # n[1]

\* C16: every regex node of every tree has a compiled expression, that of
\* the text between the first '(' and the final ')' of its segment, and as
\* paramName the text between the ':' and that '('.
RegexNodesCompiled ==
    \A m \in DOMAIN trees : \A n \in DOMAIN trees[m] :
        trees[m][n].typ = nodeTypeReg =>
            LET seg == trees[m][n].path
                open == Index(seg, "(")
            IN  /\ trees[m][n].regExpr # NilRegexp
                /\ trees[m][n].regExpr = SubSeq(seg, open + 1, Len(seg) - 1)
                /\ trees[m][n].paramName = SubSeq(seg, 2, open - 1)

\* The half of C16 that holds: the paramName and the expression handed to
\* the compiler are the two texts the claim names.
RegexNodesParsed ==
    \A m \in DOMAIN trees : \A n \in DOMAIN trees[m] :
        trees[m][n].typ = nodeTypeReg =>
            LET seg == trees[m][n].path
                open == Index(seg, "(")
            IN  /\ trees[m][n].regExpr
                      = Compile(SubSeq(seg, open + 1, Len(seg) - 1))
                /\ trees[m][n].paramName = SubSeq(seg, 2, open - 1)

\* Whether seg is ":" name "(" expression ")" for some name and some
\* expression of one character or more.
HasRegexShape(seg) ==
    \E i \in 2..(Len(seg) - 1) :
        LET name == SubSeq(seg, 2, i - 1)
            expression == SubSeq(seg, i + 1, Len(seg) - 1)
        IN  /\ name # <<>>
            /\ expression # <<>>
            /\ seg = <<":">> \o name \o <<"(">> \o expression \o <<")">>

\* The kind the classification gives a segment of one character or more:
\* the first that applies of wildcard, regex, param and static.
ClaimedKind(seg) ==
    IF seg = <<"*">> THEN "star"
    ELSE IF seg[1] = ":" /\ HasRegexShape(seg) THEN "reg"
    ELSE IF seg[1] = ":" THEN "param"
    ELSE "static"

\* The type tag of a kind, and the field of the parent that holds a child
\* of that kind.
KindTag(kind) ==
    CASE kind = "star" -> nodeTypeAny
      [] kind = "reg" -> nodeTypeReg
      [] kind = "param" -> nodeTypeParam
      [] kind = "static" -> nodeTypeStatic

KindField(kind) == IF kind = "static" THEN "children" ELSE SlotOf(kind)

\* The fields of a node that hold a child of text seg.
Holders(node, seg) ==
    {k \in {"children", "starChild", "regChild", "paramChild"} :
        IF k = "children" THEN seg \in node.children ELSE node[k] = seg}

\* C17: childOrCreate on a segment, at any node, panics with a conflict or
\* returns the child of that text, whose type tag is that of the kind the
\* classification gives the segment and which the parent holds in the field
\* of that kind and in no other; every node below a root has the type tag of
\* the one field of its parent that holds it; and no key of a children map
\* is "*" or starts with ':'.
SegmentClassification ==
    \A m \in DOMAIN trees : \A n \in DOMAIN trees[m] :
        /\ \A seg \in ShapeTexts :
              LET c == childOrCreate(trees[m], n, seg)
                  kind == ClaimedKind(seg)
              IN  \/ c.panic \in ConflictPanics
                  \/ /\ c.panic = "none"
                     /\ c.node = Child(n, seg)
                     /\ c.tree[c.node].typ = KindTag(kind)
                     /\ c.tree[c.node].path = seg
                     /\ Holders(c.tree[n], seg) = {KindField(kind)}
        /\ n # Root =>
              LET parent == trees[m][SubSeq(n, 1, Len(n) - 1)]
                  seg == n[Len(n)]
              IN  /\ Holders(parent, seg) = {KindField(ClaimedKind(seg))}
                  /\ trees[m][n].typ = KindTag(ClaimedKind(seg))
        /\ \A key \in trees[m][n].children :
              key # <<"*">> /\ key[1] # ":"

\* A root whose children map has the keys "*a" and "(a)" and whose param
\* child is ":x()", the segment with an empty expression.
ClassificationWitness ==
    \E m \in DOMAIN trees :
        /\ {<<"*", "a">>, <<"(", "a", ")">>} \subseteq trees[m][Root].children
        /\ trees[m][Root].paramChild = <<":", "x", "(", ")">>
        /\ trees[m][<<(<<":", "x", "(", ")">>)>>].typ = nodeTypeParam

\* C18: after addValue(name, value), pathParams maps name to value, holds
\* the keys it held and name, and maps every other key to what it did, also
\* from the nil pathParams; a call with the arguments of a call made before
\* it, with no other value given to that name since, changes nothing, and
\* two calls in a row with the same arguments leave what one leaves.
IdempotentOverwrite ==
    [][ \A key \in ParamNames, value \in ParamValues :
          AddValue(key, value) =>
            /\ DOMAIN last'.pathParams = DOMAIN last.pathParams \cup {key}
            /\ last'.pathParams[key] = value
            /\ \A other \in DOMAIN last.pathParams \ {key} :
                  last'.pathParams[other] = last.pathParams[other]
            /\ last'.n = last.n
            /\ ( /\ key \in DOMAIN last.pathParams
                 /\ last.pathParams[key] = value )
               => last'.pathParams = last.pathParams
            /\ addValue(addValue(last, key, value), key, value)
                  = addValue(last, key, value)
      ]_vars

\* Three calls have left two keys: one call gave a key the value it has
\* beside another key that kept its own.
OverwriteWitness ==
    /\ ncalls = MaxCalls
    /\ last.op = "addValue"
    /\ Cardinality(DOMAIN last.pathParams) = 2

\* The step is an addRoute call that panicked.
AddRouteFails ==
    /\ ncalls' = ncalls + 1
    /\ last'.op = "addRoute"
    /\ last'.panic # "none"

\* C19: an addRoute call that panics, on the path or on a conflict, leaves
\* r.trees as it was: no root added, no node made, no handler set.
FailureAtomicity ==
    [][AddRouteFails => trees' = trees]_vars

\* The part of C19 that holds: a call that panics sets no handler and takes
\* no node away, and one that panics on the checks made before the tree is
\* looked at changes nothing.
FailureSetsNoHandler ==
    [][ AddRouteFails =>
          /\ \A m \in DOMAIN trees :
                /\ m \in DOMAIN trees'
                /\ DOMAIN trees[m] \subseteq DOMAIN trees'[m]
          /\ \A m \in DOMAIN trees' : \A n \in DOMAIN trees'[m] :
                trees'[m][n].handler =
                    IF m \in DOMAIN trees /\ n \in DOMAIN trees[m]
                    THEN trees[m][n].handler
                    ELSE NilHandler
          /\ last'.panic \in {"emptyPath", "noLeadingSlash", "trailingSlash"}
                => trees' = trees
      ]_vars

\* The calls of the sequence calls from its i-th on, made on the trees r
\* until one panics: the trees left and the panic, "none" if all returned.
RECURSIVE Replay(_, _, _)
Replay(r, calls, i) ==
    IF i > Len(calls) THEN Outcome(r, "none")
    ELSE LET o == addRoute(r, calls[i][1], calls[i][2], calls[i][3])
         IN  IF o.panic # "none" THEN o
             ELSE Replay(o.trees, calls, i + 1)

\* The sequences that hold each element of the set S once.
Orders(S) ==
    {seq \in [1..Cardinality(S) -> S] :
        \A i \in 1..Cardinality(S), j \in 1..Cardinality(S) :
            i # j => seq[i] # seq[j]}

\* C20: when every addRoute call made so far has returned, the same calls,
\* each with its method, path and handler, made in any order on a new
\* router all return and leave the trees there are; so no set of calls
\* registers in one order and panics in another.
OrderIndependence ==
    Cardinality(registered) = ncalls =>
        \A seq \in Orders(registered) :
            Replay(<<>>, seq, 1) = Outcome(trees, "none")

\* Three routes are registered, two of them below one param node and the
\* third below a static node beside it.
OrderWitness ==
    /\ ncalls = MaxCalls
    /\ Cardinality(registered) = MaxCalls
    /\ \E r1 \in registered, r2 \in registered, r3 \in registered :
          /\ Len(Terminal(r1[2])) = 2
          /\ Len(Terminal(r2[2])) = 2
          /\ Len(Terminal(r3[2])) = 2
          /\ r1[2] # r2[2]
          /\ Terminal(r1[2])[1] = Terminal(r2[2])[1]
          /\ SegKind(Terminal(r1[2])[1]) = "param"
          /\ SegKind(Terminal(r3[2])[1]) = "static"

====
